---- MODULE Spec2Model ----
(***************************************************************************)
(* A model of omegaconf/omegaconf.py: the resolver registry and its        *)
(* per-config cache, the argument tokenizer, the flag accessors, the       *)
(* scoped flag overrides (flag_override, read_write, open_dict) and        *)
(* OmegaConf.merge.                                                        *)
(*                                                                         *)
(* The module holds seven specifications over one set of variables; each   *)
(* leaves the variables of the other groups at their initial values:       *)
(*   SpecTok    _tokenize_args on every string up to MaxLen characters     *)
(*   SpecReg    register_resolver / clear_resolvers                        *)
(*   SpecRes    the registry, caching and set_cache on one config          *)
(*   SpecCache  caching, set_cache and copy_cache on two configs           *)
(*   SpecFlag   set_readonly / set_struct / is_readonly / is_struct        *)
(*   SpecScope  flag_override, read_write and open_dict around flag writes *)
(*   SpecMerge  OmegaConf.create and OmegaConf.merge over a heap of        *)
(*              config objects                                             *)
(***************************************************************************)
EXTENDS Integers, Sequences, FiniteSets, TLC

VARIABLES
    \* ---- _tokenize_args
    string,        \* the argument of _tokenize_args, a sequence of characters
    stringIsNone,  \* TRUE when the argument is None (string is then << >>)
    escaped,       \* the local `escaped` after line 147 (split and trimmed)
    tokens,        \* the returned list
    tokPc,         \* "ready" before the call, "done" after it
    \* ---- resolver registry and caches
    resolvers,     \* Container._resolvers: registered name -> the function it wraps
    environ,       \* os.environ: variable name -> text
    cacheOf,       \* config -> the cache object its _resolver_cache refers to
    cacheHeap,     \* cache object -> its content, name -> (raw key -> value)
    calls,         \* history: config -> the (name, key) the wrapped function was
                   \* called for since the config's cache was last replaced
    computed,      \* history: config -> (name, key) -> the value its first
                   \* successful invocation returned since then (NoVal: none)
    wasRegistered, \* history: the user names register_resolver has bound so far
    resRet,        \* the last operation of this group and how it ended; its
                   \* tick alternates, so that no operation is a stuttering step
    \* ---- flags and scoped overrides
    flags,         \* node -> flag name -> None, True or False: the node's own flags
    scopes,        \* the with-blocks entered and not left, innermost last
    flagRet,       \* the last operation of this group and its result
    \* ---- create and merge
    heap,          \* identity of a config -> the config: content, flags, cache
    mergeRet,      \* the last operation of this group and its result
    setups         \* how many flags were set and interpolations resolved so far

tokVars == <<string, stringIsNone, escaped, tokens, tokPc>>

resVars == <<resolvers, environ, cacheOf, cacheHeap, calls, computed, wasRegistered, resRet>>

flagVars == <<flags, scopes, flagRet>>

mergeVars == <<heap, mergeRet, setups>>

vars == <<tokVars, resVars, flagVars, mergeVars>>

(***************************************************************************)
(* Bounds                                                                  *)
(***************************************************************************)
MaxLen == 4
MaxDepth == 2
MaxConfigs == 2
MaxOthers == 3
MaxSetups == 1

(***************************************************************************)
(* Generic helpers                                                         *)
(***************************************************************************)
Min(S) == CHOOSE x \in S : \A y \in S : x <= y

(***************************************************************************)
(* _tokenize_args (omegaconf.py 136-148)                                   *)
(***************************************************************************)
BS == "\\"

Chars == {"a", " ", ",", BS}

RECURSIVE StringsUpTo(_)
StringsUpTo(n) ==
    IF n = 0 THEN {<< >>}
    ELSE LET shorter == StringsUpTo(n - 1)
         IN  shorter \cup {Append(s, c) : s \in {t \in shorter : Len(t) = n - 1}, c \in Chars}

\* the negative lookbehind (?<!\\): position i is not preceded by a backslash
NotAfterBackslash(s, i) == i = 1 \/ s[i - 1] # BS

\* the positions re.split(r"(?<!\\),", s) splits at
SplitPoints(s) == {i \in 1..Len(s) : s[i] = "," /\ NotAfterBackslash(s, i)}

RECURSIVE SplitFrom(_, _)
SplitFrom(s, start) ==
    LET later == {p \in SplitPoints(s) : p >= start}
    IN  IF later = {} THEN <<SubSeq(s, start, Len(s))>>
        ELSE <<SubSeq(s, start, Min(later) - 1)>> \o SplitFrom(s, Min(later) + 1)

\* re.split(r"(?<!\\),", string)
ReSplit(s) == SplitFrom(s, 1)

\* _unescape_word_boundary: the replacement for the match at position i of x
\* (match.start() == 0 is i = 1, match.end() == len(match.string) is i = Len(x))
AtWordBoundary(x, i) == i = 1 \/ i = Len(x)

UnescapeWordBoundary(x, i) == IF AtWordBoundary(x, i) THEN << >> ELSE <<x[i]>>

RECURSIVE TrimFrom(_, _)
TrimFrom(x, i) ==
    IF i > Len(x) THEN << >>
    ELSE (IF x[i] = " " /\ NotAfterBackslash(x, i)
          THEN UnescapeWordBoundary(x, i)
          ELSE <<x[i]>>) \o TrimFrom(x, i + 1)

\* re.sub(r"(?<!\\) ", _unescape_word_boundary, x)
TrimBoundary(x) == TrimFrom(x, 1)

RECURSIVE UnescapeFrom(_, _)
UnescapeFrom(x, i) ==
    IF i > Len(x) THEN << >>
    ELSE IF x[i] = BS /\ i < Len(x) /\ x[i + 1] \in {" ", ","}
         THEN <<x[i + 1]>> \o UnescapeFrom(x, i + 2)
         ELSE <<x[i]>> \o UnescapeFrom(x, i + 1)

\* re.sub(r"(\\([ ,]))", lambda x: x.group(2), x)
Unescape(x) == UnescapeFrom(x, 1)

\* _tokenize_args as a function of a string that is not None
Tokenize(s) ==
    IF s = << >> THEN << >>
    ELSE [i \in 1..Len(ReSplit(s)) |-> Unescape(TrimBoundary(ReSplit(s)[i]))]

TokInit ==
    /\ stringIsNone \in BOOLEAN
    /\ string \in (IF stringIsNone THEN {<< >>} ELSE StringsUpTo(MaxLen))
    /\ escaped = << >>
    /\ tokens = << >>
    /\ tokPc = "ready"

TokIdle ==
    /\ stringIsNone = FALSE
    /\ string = << >>
    /\ escaped = << >>
    /\ tokens = << >>
    /\ tokPc = "ready"

TokenizeArgs ==
    /\ tokPc = "ready"
    /\ tokPc' = "done"
    /\ IF stringIsNone \/ string = << >>
       THEN /\ escaped' = << >>
            /\ tokens' = << >>
       ELSE /\ escaped' = [i \in 1..Len(ReSplit(string)) |-> TrimBoundary(ReSplit(string)[i])]
            /\ tokens' = Tokenize(string)
    /\ UNCHANGED <<string, stringIsNone>>

(***************************************************************************)
(* The resolver registry and the per-config resolver cache                 *)
(* (omegaconf.py 38-45, 150-190)                                           *)
(***************************************************************************)
NoVal == -1

EnvFn == "env"

\* the user functions a test registers, and an object that is not callable
Callables == {"f", "g", "h"}

NotCallable == "nc"

ResolverNames == {"env", "r", "s"}

Configs == {"a", "b"}

\* raw argument strings of a resolver call: "A" and " A" tokenize to the same
\* argument list and are two cache keys
KeyA == <<"A">>

KeySpA == <<" ", "A">>

Keys == {KeyA, KeySpA}

EnvVars == {<<"A">>}

EnvTexts == {"5"}

UserValues == {1, 2}

Pairs == ResolverNames \X Keys

\* the cache object the test itself built and passes to set_cache
UserDict == 0

EmptyMap == [x \in {} |-> NoVal]

EmptyCache == [n \in ResolverNames |-> EmptyMap]

Put(f, k, v) == [x \in DOMAIN f \cup {k} |-> IF x = k THEN v ELSE f[x]]

Remove(f, k) == [x \in DOMAIN f \ {k} |-> f[x]]

\* decode_primitive of _utils: the text of an integer becomes the integer
DecodePrimitive(text) == CASE text = "5" -> 5

Raise(kind) == [outcome |-> kind, val |-> NoVal]

Return(v) == [outcome |-> "ok", val |-> v]

\* env(key) of register_default_resolvers, called as env(*tokens)
Env(args) ==
    IF Len(args) # 1 THEN Raise("TypeError")
    ELSE IF args[1] \notin DOMAIN environ THEN Raise("KeyError")
    ELSE Return(DecodePrimitive(environ[args[1]]))

\* what a call resolver(*args) can do now: env is a function of os.environ,
\* a user function returns any value or raises
ResolverOutcomes(fn, args) ==
    IF fn = EnvFn THEN {Env(args)}
    ELSE {Raise("Error")} \cup {Return(v) : v \in UserValues}

Op(op, conf, name, key, fn, invoked, outcome, val) ==
    [op |-> op, conf |-> conf, name |-> name, key |-> key, fn |-> fn,
     invoked |-> invoked, outcome |-> outcome, val |-> val, tick |-> 1 - resRet.tick]

\* mutant: the assertion on the name is missing, the binding is overwritten
RegisterIntoOverwrite(reg, name, resolver) ==
    IF resolver = NotCallable THEN [reg |-> reg, outcome |-> "AssertionError"]
    ELSE [reg |-> Put(reg, name, resolver), outcome |-> "ok"]

\* register_resolver on a registry: the two assertions, then the binding
RegisterInto(reg, name, resolver) ==
    IF resolver = NotCallable THEN [reg |-> reg, outcome |-> "AssertionError"]
    ELSE IF name \in DOMAIN reg THEN [reg |-> reg, outcome |-> "AssertionError"]
    ELSE [reg |-> Put(reg, name, resolver), outcome |-> "ok"]

EmptyRegistry == [x \in {} |-> EnvFn]

\* register_default_resolvers on a registry
RegisterDefaultResolvers(reg) == RegisterInto(reg, "env", EnvFn)

RegisterResolver(name, resolver) ==
    LET r == RegisterInto(resolvers, name, resolver)
    IN  /\ resolvers' = r.reg
        /\ resRet' = Op("register_resolver", "-", name, << >>, resolver, FALSE, r.outcome, NoVal)
        /\ wasRegistered' = IF r.outcome = "ok" THEN wasRegistered \cup {name} ELSE wasRegistered
        /\ UNCHANGED <<environ, cacheOf, cacheHeap, calls, computed>>

\* mutant: line 177 is missing, the defaults are registered on the old registry
ClearResolversNoReset ==
    LET r == RegisterDefaultResolvers(resolvers)
    IN  /\ resolvers' = r.reg
        /\ resRet' = Op("clear_resolvers", "-", "-", << >>, "-", FALSE, r.outcome, NoVal)
        /\ UNCHANGED <<environ, cacheOf, cacheHeap, calls, computed, wasRegistered>>

ClearResolvers ==
    LET r == RegisterDefaultResolvers(EmptyRegistry)
    IN  /\ resolvers' = r.reg
        /\ resRet' = Op("clear_resolvers", "-", "-", << >>, "-", FALSE, r.outcome, NoVal)
        /\ UNCHANGED <<environ, cacheOf, cacheHeap, calls, computed, wasRegistered>>

\* get_cache(conf)
GetCache(conf) == cacheHeap[cacheOf[conf]]

\* mutant: the cache is written and never read
CachingAlwaysCalls(cache, name, key, out) ==
    IF out.outcome = "ok"
    THEN [cache |-> [cache EXCEPT ![name] = Put(cache[name], key, out.val)],
          invoked |-> TRUE, outcome |-> "ok", val |-> out.val]
    ELSE [cache |-> cache, invoked |-> TRUE, outcome |-> out.outcome, val |-> NoVal]

\* mutant: the entry is made before the call and stays when the call raises
CachingPlaceholder(cache, name, key, out) ==
    IF key \in DOMAIN cache[name]
    THEN [cache |-> cache, invoked |-> FALSE, outcome |-> "ok", val |-> cache[name][key]]
    ELSE [cache |-> [cache EXCEPT ![name] = Put(cache[name], key, out.val)],
          invoked |-> TRUE, outcome |-> out.outcome, val |-> out.val]

\* the closure `caching` of register_resolver(name, resolver), given what
\* resolver(*_tokenize_args(key)) does if it is called now: the content of the
\* config's cache afterwards, whether the resolver was called, and the result
Caching(cache, name, key, out) ==
    IF key \in DOMAIN cache[name]
    THEN [cache |-> [cache EXCEPT ![name] = Put(cache[name], key, cache[name][key])],
          invoked |-> FALSE, outcome |-> "ok", val |-> cache[name][key]]
    ELSE IF out.outcome = "ok"
    THEN [cache |-> [cache EXCEPT ![name] = Put(cache[name], key, out.val)],
          invoked |-> TRUE, outcome |-> "ok", val |-> out.val]
    ELSE [cache |-> cache, invoked |-> TRUE, outcome |-> out.outcome, val |-> NoVal]

\* a resolver-call interpolation ${name:key} read on conf: Container._resolvers[name](conf, key)
Resolve(conf, name, key) ==
    /\ name \in DOMAIN resolvers
    /\ \E out \in ResolverOutcomes(resolvers[name], Tokenize(key)) :
         LET r == Caching(GetCache(conf), name, key, out)
             p == <<name, key>>
         IN  /\ cacheHeap' = [cacheHeap EXCEPT ![cacheOf[conf]] = r.cache]
             /\ calls' = [calls EXCEPT ![conf] = IF r.invoked THEN @ \cup {p} ELSE @]
             /\ computed' = [computed EXCEPT ![conf][p] =
                               IF r.invoked /\ r.outcome = "ok" /\ @ = NoVal THEN r.val ELSE @]
             /\ resRet' = Op("resolve", conf, name, key, resolvers[name], r.invoked, r.outcome, r.val)
    /\ UNCHANGED <<resolvers, environ, cacheOf, wasRegistered>>

\* a cache object no config and no test refers to is garbage
Live(refs, objs) == [i \in (DOMAIN objs) \cap (refs \cup {UserDict}) |-> objs[i]]

\* the identity of the object a deep copy made for conf creates: any identity
\* no live object has; the one conf's previous object had is free again once
\* conf refers to the copy
HomeId(conf) == IF conf = "a" THEN 1 ELSE 2

FreshId(conf) ==
    LET used == {cacheOf[c] : c \in Configs \ {conf}} \cup {UserDict}
    IN  IF HomeId(conf) \notin used THEN HomeId(conf)
        ELSE Min({i \in 1..(Cardinality(Configs) + 1) : i \notin used})

\* mutant: no deep copy, conf refers to the object it was given
SetCacheToShared(conf, src) ==
    LET refs == [cacheOf EXCEPT ![conf] = src]
    IN  /\ cacheOf' = refs
        /\ cacheHeap' = Live({refs[c] : c \in Configs}, cacheHeap)
        /\ calls' = [calls EXCEPT ![conf] = {}]
        /\ computed' = [computed EXCEPT ![conf] = [p \in Pairs |-> NoVal]]
        /\ UNCHANGED <<resolvers, environ, wasRegistered>>

\* set_cache(conf, cache): conf refers to a new object, a deep copy of `cache`
SetCacheTo(conf, src) ==
    LET new == FreshId(conf)
        refs == [cacheOf EXCEPT ![conf] = new]
    IN  /\ cacheOf' = refs
        /\ cacheHeap' = Live({refs[c] : c \in Configs},
                             [i \in DOMAIN cacheHeap \cup {new} |->
                                 IF i = new THEN cacheHeap[src] ELSE cacheHeap[i]])
        /\ calls' = [calls EXCEPT ![conf] = {}]
        /\ computed' = [computed EXCEPT ![conf] = [p \in Pairs |-> NoVal]]
        /\ UNCHANGED <<resolvers, environ, wasRegistered>>

\* set_cache(conf, d) with the dictionary d the test built
SetCache(conf) ==
    /\ SetCacheTo(conf, UserDict)
    /\ resRet' = Op("set_cache", conf, "-", << >>, "-", FALSE, "ok", NoVal)

\* copy_cache(from_config, to_config)
CopyCache(from_config, to_config) ==
    /\ SetCacheTo(to_config, cacheOf[from_config])
    /\ resRet' = Op("copy_cache", to_config, from_config, << >>, "-", FALSE, "ok", NoVal)

\* the test changes the dictionary it built: d[name][key] = v, or del d[name][key]
UserDictPut(name, key, v) ==
    /\ cacheHeap' = [cacheHeap EXCEPT ![UserDict][name] = Put(@, key, v)]
    /\ resRet' = Op("dict_put", "-", name, key, "-", FALSE, "ok", v)
    /\ UNCHANGED <<resolvers, environ, cacheOf, calls, computed, wasRegistered>>

UserDictDel(name, key) ==
    /\ key \in DOMAIN cacheHeap[UserDict][name]
    /\ cacheHeap' = [cacheHeap EXCEPT ![UserDict][name] = Remove(@, key)]
    /\ resRet' = Op("dict_del", "-", name, key, "-", FALSE, "ok", NoVal)
    /\ UNCHANGED <<resolvers, environ, cacheOf, calls, computed, wasRegistered>>

\* os.environ[var] = text, del os.environ[var]
SetEnv(var, text) ==
    /\ environ' = Put(environ, var, text)
    /\ resRet' = Op("setenv", "-", "-", var, "-", FALSE, "ok", NoVal)
    /\ UNCHANGED <<resolvers, cacheOf, cacheHeap, calls, computed, wasRegistered>>

UnsetEnv(var) ==
    /\ var \in DOMAIN environ
    /\ environ' = Remove(environ, var)
    /\ resRet' = Op("unsetenv", "-", "-", var, "-", FALSE, "ok", NoVal)
    /\ UNCHANGED <<resolvers, cacheOf, cacheHeap, calls, computed, wasRegistered>>

\* after import (line 271) and the construction of two configs
ResInit ==
    /\ resolvers = RegisterDefaultResolvers(EmptyRegistry).reg
    /\ environ = [x \in {} |-> ""]
    /\ cacheOf = [c \in Configs |-> HomeId(c)]
    /\ cacheHeap = [i \in {UserDict, 1, 2} |-> EmptyCache]
    /\ calls = [c \in Configs |-> {}]
    /\ computed = [c \in Configs |-> [p \in Pairs |-> NoVal]]
    /\ wasRegistered = {}
    /\ resRet = [op |-> "init", conf |-> "-", name |-> "-", key |-> << >>, fn |-> "-",
                 invoked |-> FALSE, outcome |-> "ok", val |-> NoVal, tick |-> 0]

(***************************************************************************)
(* Flags (omegaconf.py 192-210) and the scoped overrides (274-305).        *)
(* Container._get_flag, _get_node_flag and _set_flag are not in this file; *)
(* they are modelled as the specification describes them: a node's flag is *)
(* None, True or False, a read walks up the parents to the nearest value   *)
(* that is not None and is False if there is none, a write is local.       *)
(***************************************************************************)
Nodes == {"root", "mid", "leaf"}

NoParent == "-"

\* the parent links of the tree {mid: {leaf: {}}}
Parent(node) == CASE node = "leaf" -> "mid" [] node = "mid" -> "root" [] node = "root" -> NoParent

FlagNames == {"readonly", "struct"}

None == "None"

FlagValues == {"True", "False"}

\* Container._get_node_flag
GetNodeFlag(fl, node, name) == fl[node][name]

\* Container._get_flag
RECURSIVE GetFlag(_, _, _)
GetFlag(fl, node, name) ==
    IF fl[node][name] # None THEN fl[node][name]
    ELSE IF Parent(node) = NoParent THEN "False"
    ELSE GetFlag(fl, Parent(node), name)

\* Container._set_flag
SetFlag(fl, node, name, value) == [fl EXCEPT ![node][name] = value]

\* OmegaConf.set_readonly, is_readonly, set_struct, is_struct on the flags fl
set_readonly(fl, conf, value) == SetFlag(fl, conf, "readonly", value)

is_readonly(fl, conf) == GetFlag(fl, conf, "readonly")

set_struct(fl, conf, value) == SetFlag(fl, conf, "struct", value)

\* mutant: is_struct reads the flag is_readonly reads
is_struct_readonly(fl, conf) == GetFlag(fl, conf, "readonly")

is_struct(fl, conf) == GetFlag(fl, conf, "struct")

FlagOp(op, node, name, value, val) ==
    [op |-> op, node |-> node, name |-> name, value |-> value, val |-> val]

SetReadonly(conf, value) ==
    /\ flags' = set_readonly(flags, conf, value)
    /\ flagRet' = FlagOp("set", conf, "readonly", value, "-")
    /\ UNCHANGED scopes

SetStruct(conf, value) ==
    /\ flags' = set_struct(flags, conf, value)
    /\ flagRet' = FlagOp("set", conf, "struct", value, "-")
    /\ UNCHANGED scopes

IsReadonly(conf) ==
    /\ flagRet' = FlagOp("is", conf, "readonly", "-", is_readonly(flags, conf))
    /\ UNCHANGED <<flags, scopes>>

IsStruct(conf) ==
    /\ flagRet' = FlagOp("is", conf, "struct", "-", is_struct(flags, conf))
    /\ UNCHANGED <<flags, scopes>>

\* a scope that has been entered and not left: the generator suspended at its
\* yield, with its local prev_state; `entry` is history, the node's own flag
\* when the scope was entered
Scope(kind, node, name, prev_state) ==
    [kind |-> kind, node |-> node, name |-> name, prev_state |-> prev_state,
     entry |-> GetNodeFlag(flags, node, name)]

\* flag_override up to its yield (lines 277-280)
flag_override_enter(config, name, value) ==
    /\ scopes' = Append(scopes, Scope("flag_override", config, name, GetFlag(flags, config, name)))
    /\ flags' = SetFlag(flags, config, name, value)
    /\ flagRet' = FlagOp("enter", config, name, value, "-")

\* mutant: prev_state is read with _get_flag, as flag_override reads it
read_write_enter_inherited(config) ==
    /\ scopes' = Append(scopes, Scope("read_write", config, "readonly", GetFlag(flags, config, "readonly")))
    /\ flags' = set_readonly(flags, config, "False")
    /\ flagRet' = FlagOp("enter", config, "readonly", "False", "-")

\* read_write up to its yield (lines 289-292)
read_write_enter(config) ==
    /\ scopes' = Append(scopes, Scope("read_write", config, "readonly", GetNodeFlag(flags, config, "readonly")))
    /\ flags' = set_readonly(flags, config, "False")
    /\ flagRet' = FlagOp("enter", config, "readonly", "False", "-")

\* open_dict up to its yield (lines 300-303)
open_dict_enter(config) ==
    /\ scopes' = Append(scopes, Scope("open_dict", config, "struct", GetNodeFlag(flags, config, "struct")))
    /\ flags' = set_struct(flags, config, "False")
    /\ flagRet' = FlagOp("enter", config, "struct", "False", "-")

\* the finally clause of the innermost scope (lines 281-282, 293-294, 304-305),
\* run when its body returns and when its body raises
ScopeExit(how) ==
    /\ scopes # << >>
    /\ LET top == scopes[Len(scopes)]
       IN  /\ flags' = (CASE top.kind = "flag_override" ->
                               SetFlag(flags, top.node, top.name, top.prev_state)
                          [] top.kind = "read_write" ->
                               set_readonly(flags, top.node, top.prev_state)
                          [] top.kind = "open_dict" ->
                               set_struct(flags, top.node, top.prev_state))
           /\ flagRet' = FlagOp("exit", top.node, top.name, top.kind, how)
    /\ scopes' = SubSeq(scopes, 1, Len(scopes) - 1)

\* a tree just built: no flag is set, no scope is open
FlagInit ==
    /\ flags = [n \in Nodes |-> [f \in FlagNames |-> None]]
    /\ scopes = << >>
    /\ flagRet = FlagOp("init", "-", "-", "-", "-")

(***************************************************************************)
(* OmegaConf.create (54-78) and OmegaConf.merge (128-134) over a heap of   *)
(* config objects.  DictConfig, ListConfig, their deep copy and merge_with *)
(* are not in this file; they are modelled as the specification describes  *)
(* them (sections 3 and 4.3).                                              *)
(***************************************************************************)
MISSING == "???"

Scalar(v) == [kind |-> "scalar", val |-> v, items |-> << >>]

Dict(items) == [kind |-> "dict", val |-> "", items |-> items]

List(items) == [kind |-> "list", val |-> "", items |-> items]

\* an object OmegaConf.create does not accept: neither dict, list nor tuple
Unsupported == [kind |-> "int", val |-> "5", items |-> << >>]

\* the primitive trees the configs are created from
Primitives ==
    { Dict([k \in {"a"} |-> Scalar("1")]),
      Dict([k \in {"a", "b"} |-> IF k = "a" THEN Dict([j \in {"x"} |-> Scalar("1")])
                                 ELSE Scalar("1")]),
      Dict([k \in {"a", "b"} |-> IF k = "a" THEN Dict([j \in {"x", "y"} |-> Scalar("2")])
                                 ELSE Scalar(MISSING)]),
      List(<<Scalar("1"), Scalar("2")>>),
      Unsupported }

\* the order in which the keys of an override are visited
KeyOrder == <<"a", "b", "x", "y">>

NoFlags == [f \in FlagNames |-> None]

\* a DictConfig or ListConfig without parent: content, own flags, resolver cache
Config(content) == [content |-> content, flags |-> NoFlags, cache |-> EmptyCache]

\* Container._get_flag on a config without parent
RootFlag(obj, name) == IF obj.flags[name] = None THEN "False" ELSE obj.flags[name]

SetItem(dict, k, node) ==
    [dict EXCEPT !.items = [x \in DOMAIN dict.items \cup {k} |-> IF x = k THEN node ELSE dict.items[x]]]

\* the merge of the dict src into the dict dest, key by key from KeyOrder[i]
\* on; when a key fails, dest stays as the keys before it have left it
RECURSIVE MapMerge(_, _, _, _)
MapMerge(dest, src, i, struct) ==
    IF i > Len(KeyOrder) THEN [node |-> dest, outcome |-> "ok"]
    ELSE LET k == KeyOrder[i]
         IN  IF k \notin DOMAIN src.items THEN MapMerge(dest, src, i + 1, struct)
             ELSE IF k \notin DOMAIN dest.items
             THEN IF struct = "True"
                  THEN [node |-> dest, outcome |-> "StructAccessError"]
                  ELSE MapMerge(SetItem(dest, k, src.items[k]), src, i + 1, struct)
             ELSE LET d == dest.items[k]
                      s == src.items[k]
                  IN  IF d.kind = "dict" /\ s.kind = "dict"
                      THEN LET r == MapMerge(d, s, 1, struct)
                           IN  IF r.outcome # "ok"
                               THEN [node |-> SetItem(dest, k, r.node), outcome |-> r.outcome]
                               ELSE MapMerge(SetItem(dest, k, r.node), src, i + 1, struct)
                      ELSE IF s.kind = "scalar" /\ s.val = MISSING
                      THEN MapMerge(dest, src, i + 1, struct)
                      ELSE MapMerge(SetItem(dest, k, s), src, i + 1, struct)

\* the flags of dest after a merge of src: a flag src sets replaces dest's
MergedFlags(dest, src) == [f \in FlagNames |-> IF src[f] # None THEN src[f] ELSE dest[f]]

\* target.merge_with(other) for one other: the target afterwards and how it ended
MergeWithOne(target, other) ==
    IF RootFlag(target, "readonly") = "True"
    THEN [obj |-> target, outcome |-> "ReadonlyConfigError"]
    ELSE IF target.content.kind # other.content.kind
    THEN [obj |-> target, outcome |-> "ValidationError"]
    ELSE IF target.content.kind = "list"
    THEN [obj |-> [target EXCEPT !.content = other.content,
                                 !.flags = MergedFlags(target.flags, other.flags)],
          outcome |-> "ok"]
    ELSE LET r == MapMerge(target.content, other.content, 1, RootFlag(target, "struct"))
         IN  IF r.outcome # "ok"
             THEN [obj |-> [target EXCEPT !.content = r.node], outcome |-> r.outcome]
             ELSE [obj |-> [target EXCEPT !.content = r.node,
                                          !.flags = MergedFlags(target.flags, other.flags)],
                   outcome |-> "ok"]

\* target.merge_with(*others[i:]), left to right, stopping at the first failure
RECURSIVE MergeWith(_, _, _)
MergeWith(target, others, i) ==
    IF i > Len(others) THEN [obj |-> target, outcome |-> "ok"]
    ELSE LET r == MergeWithOne(target, heap[others[i]])
         IN  IF r.outcome # "ok" THEN r ELSE MergeWith(r.obj, others, i + 1)

\* identities of the configs OmegaConf.create has made: 1, 2, ...; NewObj is
\* the identity of the next object allocated
NewObj == Min({i \in 1..(MaxConfigs + 1) : i \notin DOMAIN heap})

NoObj == -1

\* stands where a call has returned no config
NoConfig == [content |-> Scalar(""), flags |-> NoFlags, cache |-> EmptyCache]

\* the last call: its arguments, how it ended, the identity of the object it
\* returned and, for merge, that object
MergeOp(op, others, outcome, result, obj) ==
    [op |-> op, others |-> others, outcome |-> outcome, result |-> result, obj |-> obj]

\* OmegaConf.create(obj) for an obj that is no string and no Container
Create(obj) ==
    IF obj.kind \in {"dict", "list"}
    THEN /\ heap' = [i \in DOMAIN heap \cup {NewObj} |-> IF i = NewObj THEN Config(obj) ELSE heap[i]]
         /\ mergeRet' = MergeOp("create", << >>, "ok", NewObj, NoConfig)
         /\ UNCHANGED setups
    ELSE /\ heap' = heap
         /\ mergeRet' = MergeOp("create", << >>, "ValidationError", NoObj, NoConfig)
         /\ UNCHANGED setups

\* what the callers of the configs do between merges: set a flag on a config,
\* resolve an interpolation on it, which fills its cache
HeapSetFlag(id, name, value) ==
    /\ setups < MaxSetups
    /\ setups' = setups + 1
    /\ heap' = [heap EXCEPT ![id].flags =
                  (IF name = "readonly"
                   THEN set_readonly([n \in {id} |-> heap[id].flags], id, value)
                   ELSE set_struct([n \in {id} |-> heap[id].flags], id, value))[id]]
    /\ mergeRet' = MergeOp("set_flag", << >>, "ok", NoObj, NoConfig)

HeapResolve(id) ==
    /\ setups < MaxSetups
    /\ setups' = setups + 1
    /\ heap' = [heap EXCEPT ![id].cache = Caching(@, "r", KeyA, Return(1)).cache]
    /\ mergeRet' = MergeOp("resolve", << >>, "ok", NoObj, NoConfig)

\* mutant: line 132 without the deep copy, the overrides are merged into
\* others[0], which is returned
MergeInPlace(others) ==
    IF Len(others) = 0
    THEN /\ heap' = heap
         /\ mergeRet' = MergeOp("merge", others, "AssertionError", NoObj, NoConfig)
         /\ UNCHANGED setups
    ELSE LET target == others[1]
             r == MergeWith(heap[target], others, 2)
         IN  /\ heap' = [heap EXCEPT ![target] = r.obj]
             /\ mergeRet' = IF r.outcome = "ok"
                            THEN MergeOp("merge", others, "ok", target, r.obj)
                            ELSE MergeOp("merge", others, r.outcome, NoObj, NoConfig)
             /\ UNCHANGED setups

\* res = OmegaConf.merge(*others), others being the identities of configs.
\* The target is a new object: the caller holds it when merge returns, and
\* nothing refers to it when merge_with raises.
Merge(others) ==
    IF Len(others) = 0
    THEN /\ heap' = heap
         /\ mergeRet' = MergeOp("merge", others, "AssertionError", NoObj, NoConfig)
         /\ UNCHANGED setups
    ELSE LET r == MergeWith(heap[others[1]], others, 2)
         IN  /\ heap' = heap
             /\ mergeRet' = IF r.outcome = "ok"
                            THEN MergeOp("merge", others, "ok", NewObj, r.obj)
                            ELSE MergeOp("merge", others, r.outcome, NoObj, NoConfig)
             /\ UNCHANGED setups

RECURSIVE SeqsUpTo(_, _)
SeqsUpTo(S, n) ==
    IF n = 0 THEN {<< >>}
    ELSE LET shorter == SeqsUpTo(S, n - 1)
         IN  shorter \cup {Append(s, x) : s \in {t \in shorter : Len(t) = n - 1}, x \in S}

MergeInit ==
    /\ heap = [i \in {} |-> Config(List(<< >>))]
    /\ mergeRet = MergeOp("init", << >>, "ok", NoObj, NoConfig)
    /\ setups = 0

(***************************************************************************)
(* Specifications                                                          *)
(***************************************************************************)
TokNext == TokenizeArgs /\ UNCHANGED <<resVars, flagVars, mergeVars>>

InitTok == TokInit /\ ResInit /\ FlagInit /\ MergeInit

SpecTok == InitTok /\ [][TokNext]_vars

\* the registry alone
RegNext ==
    \/ \E name \in ResolverNames, resolver \in Callables \cup {NotCallable} :
          RegisterResolver(name, resolver) /\ UNCHANGED <<tokVars, flagVars, mergeVars>>
    \/ ClearResolvers /\ UNCHANGED <<tokVars, flagVars, mergeVars>>

InitReg == TokIdle /\ ResInit /\ FlagInit /\ MergeInit

SpecReg == InitReg /\ [][RegNext]_vars

\* resolver calls on one config, whose cache the test may replace
ResNext ==
    \/ \E resolver \in {"f", "g"} : RegisterResolver("r", resolver) /\ UNCHANGED <<tokVars, flagVars, mergeVars>>
    \/ ClearResolvers /\ UNCHANGED <<tokVars, flagVars, mergeVars>>
    \/ \E name \in {"env", "r"}, key \in Keys : Resolve("a", name, key) /\ UNCHANGED <<tokVars, flagVars, mergeVars>>
    \/ SetCache("a") /\ UNCHANGED <<tokVars, flagVars, mergeVars>>
    \/ \E v \in UserValues : UserDictPut("r", KeyA, v) /\ UNCHANGED <<tokVars, flagVars, mergeVars>>
    \/ UserDictDel("r", KeyA) /\ UNCHANGED <<tokVars, flagVars, mergeVars>>
    \/ \E var \in EnvVars, text \in EnvTexts : SetEnv(var, text) /\ UNCHANGED <<tokVars, flagVars, mergeVars>>
    \/ \E var \in EnvVars : UnsetEnv(var) /\ UNCHANGED <<tokVars, flagVars, mergeVars>>

InitRes == TokIdle /\ ResInit /\ FlagInit /\ MergeInit

SpecRes == InitRes /\ [][ResNext]_vars

\* two configs and the dictionary of the test: set_cache, copy_cache, resolver calls
CacheNext ==
    \/ RegisterResolver("r", "f") /\ UNCHANGED <<tokVars, flagVars, mergeVars>>
    \/ \E conf \in Configs, key \in Keys : Resolve(conf, "r", key) /\ UNCHANGED <<tokVars, flagVars, mergeVars>>
    \/ \E conf \in Configs : SetCache(conf) /\ UNCHANGED <<tokVars, flagVars, mergeVars>>
    \/ \E from_config \in Configs, to_config \in Configs :
          CopyCache(from_config, to_config) /\ UNCHANGED <<tokVars, flagVars, mergeVars>>
    \/ \E v \in UserValues : UserDictPut("r", KeyA, v) /\ UNCHANGED <<tokVars, flagVars, mergeVars>>
    \/ UserDictDel("r", KeyA) /\ UNCHANGED <<tokVars, flagVars, mergeVars>>

InitCache == TokIdle /\ ResInit /\ FlagInit /\ MergeInit

SpecCache == InitCache /\ [][CacheNext]_vars

\* flag writes and reads on a chain of three nodes
FlagNext ==
    \/ \E conf \in Nodes, value \in FlagValues \cup {None} :
          SetReadonly(conf, value) /\ UNCHANGED <<tokVars, resVars, mergeVars>>
    \/ \E conf \in Nodes, value \in FlagValues \cup {None} :
          SetStruct(conf, value) /\ UNCHANGED <<tokVars, resVars, mergeVars>>
    \/ \E conf \in Nodes : IsReadonly(conf) /\ UNCHANGED <<tokVars, resVars, mergeVars>>
    \/ \E conf \in Nodes : IsStruct(conf) /\ UNCHANGED <<tokVars, resVars, mergeVars>>

InitFlag == TokIdle /\ ResInit /\ FlagInit /\ MergeInit

SpecFlag == InitFlag /\ [][FlagNext]_vars

\* with-blocks on mid, nested up to MaxDepth, around flag writes on mid and on
\* its parent
ScopeNodes == {"root", "mid"}

ScopeNext ==
    \/ \E conf \in ScopeNodes, value \in FlagValues \cup {None} :
          SetReadonly(conf, value) /\ UNCHANGED <<tokVars, resVars, mergeVars>>
    \/ \E value \in FlagValues \cup {None} :
          SetStruct("mid", value) /\ UNCHANGED <<tokVars, resVars, mergeVars>>
    \/ IsReadonly("mid") /\ UNCHANGED <<tokVars, resVars, mergeVars>>
    \/ \E name \in FlagNames, value \in FlagValues \cup {None} :
          /\ Len(scopes) < MaxDepth
          /\ flag_override_enter("mid", name, value)
          /\ UNCHANGED <<tokVars, resVars, mergeVars>>
    \/ Len(scopes) < MaxDepth /\ read_write_enter("mid") /\ UNCHANGED <<tokVars, resVars, mergeVars>>
    \/ Len(scopes) < MaxDepth /\ open_dict_enter("mid") /\ UNCHANGED <<tokVars, resVars, mergeVars>>
    \/ \E how \in {"return", "raise"} : ScopeExit(how) /\ UNCHANGED <<tokVars, resVars, mergeVars>>

InitScope == TokIdle /\ ResInit /\ FlagInit /\ MergeInit

SpecScope == InitScope /\ [][ScopeNext]_vars

\* configs are created, flagged, resolved on and merged.  A merge leaves the
\* heap as it is, so a merge that follows a merge has the inputs the first one
\* had: the merges taken are those that follow another call.
MergeNext ==
    \/ \E obj \in Primitives :
          /\ Cardinality(DOMAIN heap) < MaxConfigs
          /\ Create(obj)
          /\ UNCHANGED <<tokVars, resVars, flagVars>>
    \/ \E id \in DOMAIN heap, name \in FlagNames :
          HeapSetFlag(id, name, "True") /\ UNCHANGED <<tokVars, resVars, flagVars>>
    \/ \E id \in DOMAIN heap : HeapResolve(id) /\ UNCHANGED <<tokVars, resVars, flagVars>>
    \/ \E others \in SeqsUpTo(DOMAIN heap, MaxOthers) :
          /\ mergeRet.op # "merge"
          /\ Merge(others)
          /\ UNCHANGED <<tokVars, resVars, flagVars>>

InitMerge == TokIdle /\ ResInit /\ FlagInit /\ MergeInit

SpecMerge == InitMerge /\ [][MergeNext]_vars

(***************************************************************************)
(* C9: _tokenize_args splits on every comma not preceded by a backslash    *)
(* and on nothing else, None and "" give the empty list, and no returned   *)
(* token begins or ends with a space that was unescaped in the input,      *)
(* however many boundary spaces there were.  The boundary condition is     *)
(* read on `escaped`, where an escaped space is still told apart from an   *)
(* unescaped one.                                                          *)
(***************************************************************************)
BeginsWithUnescapedSpace(x) == Len(x) > 0 /\ x[1] = " "

EndsWithUnescapedSpace(x) == Len(x) > 0 /\ x[Len(x)] = " " /\ NotAfterBackslash(x, Len(x))

C9_NoBoundarySpace ==
    tokPc = "done" =>
        /\ (stringIsNone \/ string = << >>) => tokens = << >>
        /\ ~(stringIsNone \/ string = << >>) =>
               Len(tokens) = Cardinality(SplitPoints(string)) + 1
        /\ \A i \in 1..Len(escaped) :
               /\ ~BeginsWithUnescapedSpace(escaped[i])
               /\ ~EndsWithUnescapedSpace(escaped[i])

\* what does hold: the split, the empty cases, and the trimming of a token's
\* first and last character only
TokSplitAndSingleTrim ==
    tokPc = "done" =>
        /\ (stringIsNone \/ string = << >>) => tokens = << >>
        /\ ~(stringIsNone \/ string = << >>) =>
               /\ Len(tokens) = Cardinality(SplitPoints(string)) + 1
               /\ \A i \in 1..Len(tokens) :
                    LET x == ReSplit(string)[i]
                        lead == IF BeginsWithUnescapedSpace(x) THEN 1 ELSE 0
                        trail == IF Len(x) > 1 /\ EndsWithUnescapedSpace(x) THEN 1 ELSE 0
                    IN  escaped[i] = SubSeq(x, 1 + lead, Len(x) - trail)

(***************************************************************************)
(* Claims about the registry and the cache.  A step of these groups is     *)
(* told by resRet', the operation that made it.                            *)
(***************************************************************************)
Resolved == resRet'.op = "resolve"

CacheAfter(conf) == cacheHeap'[cacheOf'[conf]]

ResolvedPair == <<resRet'.name, resRet'.key>>

\* C2 as stated: in any sequence of resolutions on one config the wrapped
\* function is called at most once for a (name, raw argument string), until
\* the config's cache is replaced.
C2_InvokedAtMostOnce ==
    [][(Resolved /\ resRet'.invoked) => ResolvedPair \notin calls[resRet'.conf]]_vars

\* C2 as amended: the wrapped function returns a value at most once for a
\* (name, raw argument string) until the config's cache is replaced, and from
\* then on every resolution of the pair returns that value without calling
\* it; a call that raised does not count.
C2_FirstValueIsCached ==
    [][Resolved =>
         LET first == computed[resRet'.conf][ResolvedPair]
         IN  /\ first # NoVal =>
                  /\ ~resRet'.invoked
                  /\ resRet'.outcome = "ok"
                  /\ resRet'.val = first
             /\ (resRet'.invoked /\ resRet'.outcome = "ok") => first = NoVal]_vars

C2_Witness ==
    /\ resRet.op = "resolve"
    /\ resRet.fn \in Callables
    /\ ~resRet.invoked
    /\ resRet.val # NoVal
    /\ resRet.val = computed[resRet.conf][<<resRet.name, resRet.key>>]

\* C3: register_resolver fails for a name that is in the registry, the
\* built-in env included, and then leaves the registry as it was.
C3_DuplicateNameRejected ==
    [][(resRet'.op = "register_resolver" /\ resRet'.name \in DOMAIN resolvers) =>
         /\ resRet'.outcome = "AssertionError"
         /\ resolvers' = resolvers]_vars

C3_Witness ==
    /\ resRet.op = "register_resolver"
    /\ resRet.outcome = "AssertionError"
    /\ resRet.fn \in Callables
    /\ resRet.name \in DOMAIN resolvers \ {"env"}
    /\ resolvers[resRet.name] # resRet.fn
    /\ DOMAIN resolvers = ResolverNames

\* C4: right after clear_resolvers the registry holds the built-in env and
\* nothing else, and a user name registered before can be registered again.
C4_ClearResetsToBuiltins ==
    [][/\ resRet'.op = "clear_resolvers" =>
            /\ resRet'.outcome = "ok"
            /\ DOMAIN resolvers' = {"env"}
            /\ resolvers'["env"] = EnvFn
       /\ (/\ resRet.op = "clear_resolvers"
           /\ resRet'.op = "register_resolver"
           /\ resRet'.name \in wasRegistered
           /\ resRet'.fn \in Callables) =>
            /\ resRet'.outcome = "ok"
            /\ resolvers'[resRet'.name] = resRet'.fn]_vars

C4_Witness ==
    /\ resRet.op = "clear_resolvers"
    /\ wasRegistered = ResolverNames \ {"env"}
    /\ DOMAIN resolvers = {"env"}

\* C8: set_cache and copy_cache give the config the entries of the source as
\* they are at the call and leave the source alone; afterwards a resolver call
\* on one config changes no other config's cache nor the source dictionary,
\* and a change of the source dictionary changes no config's cache.
C8_CachesIndependent ==
    [][/\ resRet'.op = "set_cache" =>
            /\ CacheAfter(resRet'.conf) = cacheHeap[UserDict]
            /\ cacheHeap'[UserDict] = cacheHeap[UserDict]
            /\ \A c \in Configs \ {resRet'.conf} : CacheAfter(c) = GetCache(c)
       /\ resRet'.op = "copy_cache" =>
            /\ CacheAfter(resRet'.conf) = GetCache(resRet'.name)
            /\ cacheHeap'[UserDict] = cacheHeap[UserDict]
            /\ \A c \in Configs \ {resRet'.conf} : CacheAfter(c) = GetCache(c)
       /\ Resolved =>
            /\ cacheHeap'[UserDict] = cacheHeap[UserDict]
            /\ \A c \in Configs \ {resRet'.conf} : CacheAfter(c) = GetCache(c)
       /\ resRet'.op \in {"dict_put", "dict_del"} =>
            \A c \in Configs : CacheAfter(c) = GetCache(c)]_vars

\* b holds an entry it never computed and the dictionary cannot hold, so it was
\* copied from a; a has since computed an entry that b does not have
C8_Witness ==
    /\ resRet.op = "resolve"
    /\ resRet.conf = "a"
    /\ resRet.invoked
    /\ resRet.outcome = "ok"
    /\ resRet.key = KeyA
    /\ KeySpA \in DOMAIN GetCache("b")["r"]
    /\ computed["b"][<<"r", KeySpA>>] = NoVal
    /\ KeyA \notin DOMAIN GetCache("b")["r"]

\* C10: a call of the wrapped function that raises reaches the caller and
\* leaves every cache as it was, with no entry for the key; a resolution that
\* finds no entry calls the function, and caches what it returns; env raises
\* KeyError for an unset variable and returns the decoded text of a set one.
C10_FailureNotCached ==
    [][Resolved =>
         LET before == GetCache(resRet'.conf)[resRet'.name]
             after == CacheAfter(resRet'.conf)[resRet'.name]
         IN  /\ resRet'.outcome # "ok" =>
                  /\ resRet'.invoked
                  /\ cacheHeap' = cacheHeap
                  /\ resRet'.key \notin DOMAIN after
             /\ resRet'.key \notin DOMAIN before =>
                  /\ resRet'.invoked
                  /\ resRet'.outcome = "ok" =>
                       /\ resRet'.key \in DOMAIN after
                       /\ after[resRet'.key] = resRet'.val
             /\ (resRet'.invoked /\ resRet'.fn = EnvFn) =>
                  \A var \in EnvVars :
                      Tokenize(resRet'.key) = <<var>> =>
                          IF var \in DOMAIN environ
                          THEN resRet'.val = DecodePrimitive(environ[var])
                          ELSE resRet'.outcome = "KeyError"]_vars

\* env has raised KeyError for " A" although "A" is cached: the variable was
\* set, resolved under one key and unset again
C10_Witness ==
    /\ resRet.op = "resolve"
    /\ resRet.fn = EnvFn
    /\ resRet.outcome = "KeyError"
    /\ resRet.key = KeySpA
    /\ <<"env", KeySpA>> \in calls[resRet.conf]
    /\ KeySpA \notin DOMAIN GetCache(resRet.conf)["env"]
    /\ KeyA \in DOMAIN GetCache(resRet.conf)["env"]

(***************************************************************************)
(* Claims about the flags and the scopes                                   *)
(***************************************************************************)
Depth(node) == CASE node = "root" -> 0 [] node = "mid" -> 1 [] node = "leaf" -> 2

RECURSIVE Up(_, _)
Up(node, k) == IF k = 0 THEN node ELSE Parent(Up(node, k - 1))

\* the nearest value that is not None on the way from node to the root
NearestSet(fl, node, name) ==
    LET set == {k \in 0..Depth(node) : fl[Up(node, k)][name] # None}
    IN  IF set = {} THEN "False" ELSE fl[Up(node, Min(set))][name]

OtherFlagsKept(node, name) ==
    \A n \in Nodes, f \in FlagNames : <<n, f>> # <<node, name>> => flags'[n][f] = flags[n][f]

\* C5: is_readonly and is_struct return the nearest value that is not None
\* from the node up to the root, False if there is none, and change nothing;
\* set_readonly and set_struct write the node's own entry of that flag and
\* no other entry of any node.
C5_ReadWalksUpWriteIsLocal ==
    [][/\ flagRet'.op = "is" =>
            /\ flagRet'.val = NearestSet(flags, flagRet'.node, flagRet'.name)
            /\ flags' = flags
       /\ flagRet'.op = "set" =>
            /\ flags'[flagRet'.node][flagRet'.name] = flagRet'.value
            /\ OtherFlagsKept(flagRet'.node, flagRet'.name)]_vars

C5_Witness ==
    /\ flagRet.op = "is"
    /\ flagRet.node = "leaf"
    /\ flagRet.name = "struct"
    /\ flags["leaf"]["struct"] = None
    /\ flags["mid"]["struct"] = "False"
    /\ flags["root"]["struct"] = "True"
    /\ flags["mid"]["readonly"] = "True"
    /\ flagRet.val = "False"

LeftScope == scopes[Len(scopes)]

\* C6 as stated: when a flag_override scope is left, by return or by raise,
\* the node's own entry of the flag is what it was when the scope was entered,
\* None included.
C6_OverrideRestoresLocalFlag ==
    [][(flagRet'.op = "exit" /\ flagRet'.value = "flag_override") =>
         /\ flags'[LeftScope.node][LeftScope.name] = LeftScope.entry
         /\ OtherFlagsKept(LeftScope.node, LeftScope.name)]_vars

\* C7: read_write and open_dict set the node's own readonly (struct) entry to
\* False on entry and, when left by return or by raise, set it to what it was
\* on entry of that very scope, None included, whatever the body and the
\* scopes nested in it did; no other entry of any node is written.
C7_ScopeRestoresLocalFlag ==
    [][/\ (flagRet'.op = "enter" /\ scopes'[Len(scopes')].kind \in {"read_write", "open_dict"}) =>
            /\ Len(scopes') = Len(scopes) + 1
            /\ flags'[flagRet'.node][flagRet'.name] = "False"
            /\ flagRet'.name = (IF scopes'[Len(scopes')].kind = "read_write"
                                THEN "readonly" ELSE "struct")
            /\ OtherFlagsKept(flagRet'.node, flagRet'.name)
       /\ (flagRet'.op = "exit" /\ flagRet'.value \in {"read_write", "open_dict"}) =>
            /\ scopes' = SubSeq(scopes, 1, Len(scopes) - 1)
            /\ flags'[LeftScope.node][LeftScope.name] = LeftScope.entry
            /\ OtherFlagsKept(LeftScope.node, LeftScope.name)]_vars

\* the inner of two read_write scopes on mid was left by raise and has put back
\* the True the body of the outer one had set; the outer one was entered at None
C7_Witness ==
    /\ flagRet.op = "exit"
    /\ flagRet.value = "read_write"
    /\ flagRet.val = "raise"
    /\ Len(scopes) = 1
    /\ scopes[1].kind = "read_write"
    /\ scopes[1].entry = None
    /\ flags["mid"]["readonly"] = "True"

(***************************************************************************)
(* C1: OmegaConf.merge(base, *overrides) never mutates its inputs.         *)
(***************************************************************************)
\* the config after the first n - 1 of others[2..] have been merged, one after
\* the other, into a copy of the config others[1]
RECURSIVE FoldedPrefix(_, _)
FoldedPrefix(others, n) ==
    IF n = 1 THEN heap[others[1]]
    ELSE MergeWithOne(FoldedPrefix(others, n - 1), heap[others[n]]).obj

\* C1: whether a merge returns or raises, base and each override have the
\* content, flags and resolver cache they had before the call and no config
\* appears or disappears; when it returns, the result is an object that was
\* not there before, equal to a copy of base with the overrides merged in
\* left to right; when it raises, no object is returned.
C1_MergeLeavesInputs ==
    [][mergeRet'.op = "merge" =>
         /\ heap' = heap
         /\ mergeRet'.outcome = "ok" =>
              /\ mergeRet'.result \notin DOMAIN heap
              /\ mergeRet'.obj = FoldedPrefix(mergeRet'.others, Len(mergeRet'.others))
         /\ mergeRet'.outcome # "ok" =>
              /\ mergeRet'.result = NoObj
              /\ mergeRet'.obj = NoConfig]_vars

\* a merge has raised StructAccessError after its target, the copy of a base
\* in struct mode, had taken a value of the override: a nested key was
\* replaced before a new key was refused
C1_Witness ==
    /\ mergeRet.op = "merge"
    /\ mergeRet.outcome = "StructAccessError"
    /\ Len(mergeRet.others) = 2
    /\ MergeWith(heap[mergeRet.others[1]], mergeRet.others, 2).obj.content
         # heap[mergeRet.others[1]].content
    /\ heap[mergeRet.others[1]].flags["struct"] = "True"

====
